---- MODULE Spec2Model ----
(***************************************************************************)
(* Model of code/run_capsule.py: layered resolution of CapsuleParameters,  *)
(* selection of the session_ids worklist in main(), the partition loop,    *)
(* and write_parameter_sets, which writes one artifact per work unit.      *)
(***************************************************************************)
EXTENDS Integers, Sequences, FiniteSets, TLC

VARIABLES
    overrides,    \* keyword arguments of the latest CapsuleParameters(...) call
    fileSrc,      \* content of the persisted parameters.json (declared fields only)
    cli,          \* raw command-line values (strings), declared fields only
    table,        \* the 'units' table: rows per session_id and structure
    pipeline,     \* utils.is_pipeline()
    avail,        \* stems of utils.get_nwb_paths()
    pc,           \* position of main()
    params,       \* <<>> or <<CapsuleParameters>> resolved at the top of main()
    error,        \* <<>> or <<record of the exception that ended main()>>
    session_ids,  \* the worklist, an ordered sequence
    branch,       \* which arm of the if/elif chain of main() ran
    cur,          \* index in session_ids of the partition in the loop
    sp,           \* <<>> or <<CapsuleParameters>> of the partition in the loop
    ai, ui, idx,  \* write_parameter_sets: position in areas, in n_units_list, idx
    writes,       \* log of write_text calls, in order
    attempted,    \* session ids the loop body ran for, in order
    outcomes,     \* "Completed" / "Failed" per attempted session id
    ensureCalls,  \* calls of utils.ensure_nonempty_results_dirs
    inst,         \* concurrently running instances of the capsule
    dirs,         \* directories that exist under the shared output tree
    files         \* artifacts in /results/parameters: name -> content and last writer

vars == <<overrides, fileSrc, cli, table, pipeline, avail, pc, params, error,
          session_ids, branch, cur, sp, ai, ui, idx, writes, attempted,
          outcomes, ensureCalls, inst, dirs, files>>

inputVars == <<fileSrc, cli, table, pipeline, avail>>
loopVars == <<cur, sp, ai, ui, idx, writes, attempted, outcomes>>

----------------------------------------------------------------------------
(* Bounds of the model *)

MaxUnits == 2
MaxAreas == 2

(* Numbers fixed by the program *)

MinGroupSize == 20
SampleSize == 3

----------------------------------------------------------------------------
(* Small helpers *)

Min(a, b) == IF a <= b THEN a ELSE b

Range(s) == {s[i] : i \in 1..Len(s)}

Prefixes(s, n) == {SubSeq(s, 1, k) : k \in 1..Min(n, Len(s))}

EmptySrc == <<>>

Field(name, opt) == IF opt = <<>> THEN EmptySrc ELSE name :> opt[1]

Opt(S) == {<<>>} \cup {<<x>> : x \in S}

----------------------------------------------------------------------------
(* CapsuleParameters: fields, defaults, sources *)

None == "None"

Fields == {"n_units_list", "areas", "session_id", "logging_level", "test"}

Defaults ==
    ("session_id" :> None) @@ ("logging_level" :> "INFO") @@ ("test" :> FALSE)

\* settings_customise_sources: the first source is the highest priority
SettingsSources == <<"init", "cli">>

Source(name, ov, fl, cl) ==
    CASE name = "init" -> ov
      [] name = "file" -> fl
      [] name = "cli"  -> cl

\* literals the command line can carry for an integer
IntLiteral == ("25" :> 25) @@ ("50" :> 50) @@ ("100" :> 100)

ParseInt(tok) == IF tok \in DOMAIN IntLiteral THEN <<IntLiteral[tok]>> ELSE <<>>

ParseIntList(raw) ==
    IF \A i \in 1..Len(raw) : ParseInt(raw[i]) # <<>>
    THEN <<[i \in 1..Len(raw) |-> ParseInt(raw[i])[1]]>>
    ELSE <<>>

ParseBool(raw) ==
    CASE raw = "true"  -> <<TRUE>>
      [] raw = "false" -> <<FALSE>>
      [] OTHER         -> <<>>

\* validation of one field's value to its declared type; <<>> when it fails.
\* Values given to init or read from JSON are typed; command-line values are text.
Coerce(f, srcName, raw) ==
    IF srcName # "cli" THEN <<raw>>
    ELSE CASE f = "n_units_list" -> ParseIntList(raw)
           [] f = "test"         -> ParseBool(raw)
           [] OTHER              -> <<raw>>

\* index in `order` of the first source that supplies f, 0 if none does
FirstSupplying(order, f, ov, fl, cl) ==
    LET is == {i \in 1..Len(order) : f \in DOMAIN Source(order[i], ov, fl, cl)}
    IN  IF is = {} THEN 0 ELSE CHOOSE i \in is : \A j \in is : i <= j

\* the value of f under the source order `order`: <<v>>, or <<>> if no source
\* supplies it and it has no default, or if its value fails validation
FieldValue(order, f, ov, fl, cl) ==
    LET i == FirstSupplying(order, f, ov, fl, cl)
    IN  IF i = 0
        THEN IF f \in DOMAIN Defaults THEN <<Defaults[f]>> ELSE <<>>
        ELSE Coerce(f, order[i], Source(order[i], ov, fl, cl)[f])

MissingFields(order, ov, fl, cl) ==
    {f \in Fields : FirstSupplying(order, f, ov, fl, cl) = 0 /\ f \notin DOMAIN Defaults}

InvalidFields(order, ov, fl, cl) ==
    {f \in Fields : FirstSupplying(order, f, ov, fl, cl) # 0
                    /\ FieldValue(order, f, ov, fl, cl) = <<>>}

\* the CapsuleParameters constructor: the settings object, or the validation error
Resolve(ov, fl, cl) ==
    LET bad == MissingFields(SettingsSources, ov, fl, cl)
               \cup InvalidFields(SettingsSources, ov, fl, cl)
    IN  IF bad = {}
        THEN [ok |-> TRUE,
              cfg |-> [f \in Fields |-> FieldValue(SettingsSources, f, ov, fl, cl)[1]],
              missing |-> {}, invalid |-> {}]
        ELSE [ok |-> FALSE,
              cfg |-> EmptySrc,
              missing |-> MissingFields(SettingsSources, ov, fl, cl),
              invalid |-> InvalidFields(SettingsSources, ov, fl, cl)]

----------------------------------------------------------------------------
(* Inputs *)

UnitTokens == <<"25", "50", "100">>
AreaNames == <<"VISp", "CA1", "LGd">>

CliUnitChoices == Prefixes(UnitTokens, MaxUnits)
CliAreaChoices == {<<>>} \cup Prefixes(AreaNames, MaxAreas)

MkSrc(u, a, s, l, t) ==
    Field("n_units_list", u) @@ Field("areas", a) @@ Field("session_id", s)
        @@ Field("logging_level", l) @@ Field("test", t)

OverrideChoices ==
    {MkSrc(u, <<>>, s, <<>>, t) :
        u \in Opt({<<10>>}), s \in Opt({"sessB"}), t \in Opt({TRUE})}

FileChoices ==
    {MkSrc(u, a, <<>>, l, <<>>) :
        u \in Opt({<<100>>}), a \in Opt({<<"CA1">>}), l \in Opt({"DEBUG"})}

CliChoices ==
    {MkSrc(u, a, s, l, t) :
        u \in Opt(CliUnitChoices \cup {<<"abc">>}), a \in Opt(CliAreaChoices),
        s \in Opt({"sessA"}), l \in Opt({"WARNING"}), t \in Opt({"true"})}

\* command lines of the runs of main()
RunCliChoices ==
    {MkSrc(u, a, s, <<>>, t) :
        u \in Opt(CliUnitChoices), a \in Opt(CliAreaChoices),
        s \in Opt({"sessA", "sessD"}), t \in Opt({"true"})}

RunFileChoices == {EmptySrc, "n_units_list" :> <<100>>}

Sessions == {"sessA", "sessB", "sessC"}
Structures == {"VISp", "CA1"}

\* lexicographic order of the session ids of the model
SessionOrder == <<"sessA", "sessB", "sessC", "sessD">>

Big   == ("VISp" :> MinGroupSize + 1) @@ ("CA1" :> 0)
Edge  == ("VISp" :> MinGroupSize) @@ ("CA1" :> 0)
Mixed == ("VISp" :> 1) @@ ("CA1" :> MinGroupSize)
Empty == ("VISp" :> 0) @@ ("CA1" :> 0)

TableChoices ==
    {("sessA" :> a) @@ ("sessB" :> b) @@ ("sessC" :> c) :
        a \in {Big, Mixed}, b \in {Big, Edge}, c \in {Big, Empty}}

AvailChoices == {{}, {"sessA"}, {"sessA", "sessB"}, {"sessA", "sessB", "sessC"}}

NoError == <<>>
Err(kind, count, fields) == <<[kind |-> kind, count |-> count, fields |-> fields]>>

----------------------------------------------------------------------------
(* Pure resolution: the CapsuleParameters constructor on drawn sources *)

Idle ==
    /\ table = [s \in Sessions |-> Empty]
    /\ pipeline = FALSE
    /\ avail = {}
    /\ session_ids = <<>>
    /\ branch = "none"
    /\ cur = 1
    /\ sp = <<>>
    /\ ai = 1 /\ ui = 1 /\ idx = 0
    /\ writes = <<>>
    /\ attempted = <<>>
    /\ outcomes = <<>>
    /\ ensureCalls = 0
    /\ dirs = {}
    /\ files = <<>>

InitResolve ==
    /\ inst = <<>>
    /\ overrides \in OverrideChoices
    /\ fileSrc \in FileChoices
    /\ cli \in CliChoices
    /\ pc = "start"
    /\ params = <<>>
    /\ error = NoError
    /\ Idle

ValidationError(r) ==
    IF r.missing # {}
    THEN Err("MissingRequiredField", Cardinality(r.missing), r.missing)
    ELSE Err("InvalidFieldValue", Cardinality(r.invalid), r.invalid)

ResolveCall ==
    /\ pc = "start"
    /\ LET r == Resolve(overrides, fileSrc, cli)
       IN  /\ params' = IF r.ok THEN <<r.cfg>> ELSE <<>>
           /\ error' = IF r.ok THEN NoError ELSE ValidationError(r)
    /\ pc' = "resolved"
    /\ UNCHANGED <<overrides, inputVars, session_ids, branch, loopVars,
                   ensureCalls, inst, dirs, files>>

NextResolve == ResolveCall

SpecResolve == InitResolve /\ [][NextResolve]_vars

----------------------------------------------------------------------------
(* The query of main(): filter, sample, unique, sort *)

RECURSIVE SumOver(_, _)
SumOver(f, S) ==
    IF S = {} THEN 0
    ELSE LET x == CHOOSE y \in S : TRUE IN f[x] + SumOver(f, S \ {x})

\* pl.col('structure').count().over('session_id'): rows of the session
GroupCount(tb, s) == SumOver(tb[s], Structures)

\* rows of session s that pass both predicates of .filter(...)
KeptRows(tb, areas, s) ==
    IF GroupCount(tb, s) > MinGroupSize
    THEN SumOver(tb[s], Structures \cap Range(areas))
    ELSE 0

Kept(tb, areas) == [s \in Sessions |-> KeptRows(tb, areas, s)]

\* session ids with at least one row passing the filter
FilteredIds(tb, areas) == {s \in Sessions : KeptRows(tb, areas, s) > 0}

\* .sample(3): every choice of SampleSize rows without replacement, as the
\* number of rows taken from each session
Draws(tb, areas) ==
    {k \in [Sessions -> 0..SampleSize] :
        /\ \A s \in Sessions : k[s] <= KeptRows(tb, areas, s)
        /\ SumOver(k, Sessions) = SampleSize}

\* .get_column('session_id').unique() of each possible sample
SampledIds(tb, areas) == {{s \in Sessions : k[s] > 0} : k \in Draws(tb, areas)}

\* .sort(): ascending
Sorted(S) == SelectSeq(SessionOrder, LAMBDA x : x \in S)

\* iteration orders of a Python set
Orderings(S) ==
    {q \in [1..Cardinality(S) -> S] : \A i, j \in 1..Cardinality(S) : q[i] = q[j] => i = j}

PipelineAssertOff(ids) == TRUE

PipelineAssertLoose(ids) == Cardinality(ids) <= 2

\* assert len(session_ids) <= 1
PipelineAssert(ids) == Cardinality(ids) <= 1

----------------------------------------------------------------------------
(* main() *)

Init ==
    /\ overrides = EmptySrc
    /\ fileSrc \in RunFileChoices
    /\ cli \in RunCliChoices
    /\ table \in TableChoices
    /\ pipeline \in BOOLEAN
    /\ avail \in AvailChoices
    /\ pc = "start"
    /\ params = <<>>
    /\ error = NoError
    /\ session_ids = <<>>
    /\ branch = "none"
    /\ cur = 1
    /\ sp = <<>>
    /\ ai = 1 /\ ui = 1 /\ idx = 0
    /\ writes = <<>>
    /\ attempted = <<>>
    /\ outcomes = <<>>
    /\ ensureCalls = 0
    /\ inst = <<>>
    /\ dirs = {}
    /\ files = <<>>

\* params = CapsuleParameters()
ResolveBase ==
    /\ pc = "start"
    /\ overrides' = EmptySrc
    /\ LET r == Resolve(EmptySrc, fileSrc, cli)
       IN  IF r.ok
           THEN /\ params' = <<r.cfg>>
                /\ pc' = "query"
                /\ UNCHANGED error
           ELSE /\ error' = ValidationError(r)
                /\ pc' = "aborted"
                /\ UNCHANGED params
    /\ UNCHANGED <<inputVars, session_ids, branch, loopVars, ensureCalls, inst, dirs, files>>

\* session_ids = utils.get_df(...).filter(...)...sample(3)...unique().sort()
Query ==
    /\ pc = "query"
    /\ LET areas == params[1].areas
       IN  IF SumOver(Kept(table, areas), Sessions) < SampleSize
           THEN /\ error' = Err("ShapeError", SumOver(Kept(table, areas), Sessions), {})
                /\ pc' = "aborted"
                /\ UNCHANGED session_ids
           ELSE /\ \E ids \in SampledIds(table, areas) : session_ids' = Sorted(ids)
                /\ pc' = "select"
                /\ UNCHANGED error
    /\ UNCHANGED <<overrides, inputVars, params, branch, loopVars, ensureCalls, inst, dirs, files>>

\* if params.session_id is not None and params.session_id in session_ids
SelectRequested ==
    /\ pc = "select"
    /\ params[1].session_id # None
    /\ params[1].session_id \in Range(session_ids)
    /\ session_ids' = <<params[1].session_id>>
    /\ branch' = "single"
    /\ pc' = "loop"
    /\ UNCHANGED <<overrides, inputVars, params, error, loopVars, ensureCalls, inst, dirs, files>>

\* elif params.session_id is not None and params.session_id not in session_ids
WarnNotFound ==
    /\ pc = "select"
    /\ params[1].session_id # None
    /\ params[1].session_id \notin Range(session_ids)
    /\ branch' = "warned"
    /\ pc' = "loop"
    /\ UNCHANGED <<overrides, inputVars, params, error, session_ids, loopVars,
                   ensureCalls, inst, dirs, files>>

\* elif utils.is_pipeline()
SelectPipeline ==
    /\ pc = "select"
    /\ params[1].session_id = None
    /\ pipeline
    /\ LET ids == Range(session_ids) \cap avail
       IN  IF PipelineAssert(ids)
           THEN /\ session_ids' \in Orderings(ids)
                /\ branch' = "pipeline"
                /\ pc' = "loop"
                /\ UNCHANGED error
           ELSE /\ error' = Err("AssertionError", Cardinality(ids), {})
                /\ branch' = "pipeline"
                /\ pc' = "aborted"
                /\ UNCHANGED session_ids
    /\ UNCHANGED <<overrides, inputVars, params, loopVars, ensureCalls, inst, dirs, files>>

\* no arm of the chain applies
SelectAll ==
    /\ pc = "select"
    /\ params[1].session_id = None
    /\ ~pipeline
    /\ branch' = "all"
    /\ pc' = "loop"
    /\ UNCHANGED <<overrides, inputVars, params, error, session_ids, loopVars,
                   ensureCalls, inst, dirs, files>>

----------------------------------------------------------------------------
(* write_parameter_sets *)

ResultsDir == "/results"
ParametersDir == "/results/parameters"

FileNameNoPrefix(sid, i) == "input_parameters_" \o ToString(i) \o ".json"

\* f'{params.session_id}_input_parameters_{idx}.json'
FileName(sid, i) == sid \o "_input_parameters_" \o ToString(i) \o ".json"

\* ProcessingParameters(area=area, n_units=n_units, session_id=params.session_id)
ProcessingParameters(sid, area, n) == [session_id |-> sid, area |-> area, n_units |-> n]

\* session_id: str admits no None
CanBuild(p) == p.session_id # None

\* the two loops have a combination left at position (a, u)
InLoops(p, a, u) == a <= Len(p.areas) /\ u <= Len(p.n_units_list)

\* the outer loop is over: no area left, or nothing to iterate in the inner loop
LoopsOver(p, a, u) == ~InLoops(p, a, u)

\* one write_text call, by instance `who`
WriteEvent(p, a, u, i, who) ==
    [name |-> FileName(p.session_id, i),
     content |-> ProcessingParameters(p.session_id, p.areas[a], p.n_units_list[u]),
     idx |-> i,
     by |-> who]

NextIdxStuck(p, i) == i

\* `break` skips idx += 1
NextIdx(p, i) == IF p.test THEN i ELSE i + 1

\* position of the next iteration: `break` leaves the inner loop only
NextPos(p, a, u) ==
    IF p.test \/ u >= Len(p.n_units_list) THEN <<a + 1, 1>> ELSE <<a, u + 1>>

\* write_text: the file holds what the last call wrote
Store(fs, e) == (e.name :> [content |-> e.content, by |-> e.by]) @@ fs

\* os.makedirs semantics of mkdir(parents=True, exist_ok=True) run to its end
MkdirAll(ds) == ds \cup {ResultsDir, ParametersDir}

----------------------------------------------------------------------------
(* The partition loop of main() *)

AfterPartitionBreaks(test) == "ensure"

\* if params.test: break
AfterPartition(test) == IF test THEN "ensure" ELSE "loop"

\* for session_id in session_ids: try: CapsuleParameters(session_id=session_id)
BeginPartition ==
    /\ pc = "loop"
    /\ cur <= Len(session_ids)
    /\ LET sid == session_ids[cur]
           ov == "session_id" :> sid
           r == Resolve(ov, fileSrc, cli)
       IN  /\ overrides' = ov
           /\ attempted' = Append(attempted, sid)
           /\ IF r.ok
              THEN /\ sp' = <<r.cfg>>
                   /\ ai' = 1 /\ ui' = 1 /\ idx' = 0
                   /\ pc' = "write"
                   /\ UNCHANGED <<cur, outcomes>>
              ELSE /\ outcomes' = Append(outcomes, "Failed")
                   /\ pc' = AfterPartition(params[1].test)
                   /\ cur' = cur + 1
                   /\ UNCHANGED <<sp, ai, ui, idx>>
    /\ UNCHANGED <<inputVars, params, error, session_ids, branch, writes,
                   ensureCalls, inst, dirs, files>>

\* one iteration of the inner loop body that runs to its end
WriteStep ==
    /\ pc = "write"
    /\ InLoops(sp[1], ai, ui)
    /\ CanBuild(sp[1])
    /\ writes' = Append(writes, WriteEvent(sp[1], ai, ui, idx, 0))
    /\ dirs' = MkdirAll(dirs)
    /\ files' = Store(files, WriteEvent(sp[1], ai, ui, idx, 0))
    /\ idx' = NextIdx(sp[1], idx)
    /\ ai' = NextPos(sp[1], ai, ui)[1]
    /\ ui' = NextPos(sp[1], ai, ui)[2]
    /\ UNCHANGED <<overrides, inputVars, pc, params, error, session_ids, branch,
                   cur, sp, attempted, outcomes, ensureCalls, inst>>

\* an iteration raises (validation, mkdir or write_text); except Exception in main()
PartitionFailed ==
    /\ pc = "write"
    /\ InLoops(sp[1], ai, ui)
    /\ outcomes' = Append(outcomes, "Failed")
    /\ pc' = AfterPartition(params[1].test)
    /\ cur' = cur + 1
    /\ UNCHANGED <<overrides, inputVars, params, error, session_ids, branch,
                   sp, ai, ui, idx, writes, attempted, ensureCalls, inst, dirs, files>>

\* write_parameter_sets returns; the else arm of the try
PartitionCompleted ==
    /\ pc = "write"
    /\ LoopsOver(sp[1], ai, ui)
    /\ outcomes' = Append(outcomes, "Completed")
    /\ pc' = AfterPartition(params[1].test)
    /\ cur' = cur + 1
    /\ UNCHANGED <<overrides, inputVars, params, error, session_ids, branch,
                   sp, ai, ui, idx, writes, attempted, ensureCalls, inst, dirs, files>>

\* the for loop is exhausted
LoopExit ==
    /\ pc = "loop"
    /\ cur > Len(session_ids)
    /\ pc' = "ensure"
    /\ UNCHANGED <<overrides, inputVars, params, error, session_ids, branch,
                   loopVars, ensureCalls, inst, dirs, files>>

\* utils.ensure_nonempty_results_dirs('/results/parameters')
EnsureResults ==
    /\ pc = "ensure"
    /\ ensureCalls' = ensureCalls + 1
    /\ pc' = "done"
    /\ UNCHANGED <<overrides, inputVars, params, error, session_ids, branch,
                   loopVars, inst, dirs, files>>

Next ==
    \/ ResolveBase
    \/ Query
    \/ SelectRequested
    \/ WarnNotFound
    \/ SelectPipeline
    \/ SelectAll
    \/ BeginPartition
    \/ WriteStep
    \/ PartitionFailed
    \/ PartitionCompleted
    \/ LoopExit
    \/ EnsureResults

Spec == Init /\ [][Next]_vars

----------------------------------------------------------------------------
(* Two instances of the capsule, each pinned to one session id, running    *)
(* write_parameter_sets against the same /results tree                     *)

Instances == {1, 2}

PinChoices ==
    {<<"sessA", "sessB">>,
     <<"sessA", "sessA_input_parameters_0">>,
     <<"sessB_input_parameters_1", "sessB">>}

ConcCliChoices ==
    {MkSrc(<<u>>, <<a>>, <<>>, <<>>, t) :
        u \in CliUnitChoices, a \in Prefixes(AreaNames, MaxAreas), t \in Opt({"true"})}

DirChoices == {{}, {ResultsDir}, {ResultsDir, ParametersDir}}

NewInstance(sid, cl) ==
    [sid |-> sid,
     p |-> Resolve("session_id" :> sid, EmptySrc, cl).cfg,
     pc |-> "mkdir", ai |-> 1, ui |-> 1, idx |-> 0, log |-> <<>>]

InitConc ==
    /\ overrides = EmptySrc
    /\ fileSrc = EmptySrc
    /\ cli \in ConcCliChoices
    /\ pc = "instances"
    /\ params = <<>>
    /\ error = NoError
    /\ table = [s \in Sessions |-> Empty]
    /\ pipeline = TRUE
    /\ avail = {}
    /\ session_ids = <<>>
    /\ branch = "none"
    /\ cur = 1
    /\ sp = <<>>
    /\ ai = 1 /\ ui = 1 /\ idx = 0
    /\ writes = <<>>
    /\ attempted = <<>>
    /\ outcomes = <<>>
    /\ ensureCalls = 0
    /\ dirs \in DirChoices
    /\ files = <<>>
    /\ \E pins \in PinChoices : inst = [k \in Instances |-> NewInstance(pins[k], cli)]

mainVars == <<overrides, inputVars, pc, params, error, session_ids, branch,
              loopVars, ensureCalls>>

\* mkdir(parents=True, exist_ok=True)
ExistOk == TRUE

\* os.mkdir(d) with the directories ds present
OsMkdir(ds, d, parent) ==
    IF d \in ds THEN "FileExistsError"
    ELSE IF parent \notin ds THEN "FileNotFoundError"
    ELSE "created"

\* where Path.mkdir goes when os.mkdir found the directory present
OnExists(existOk) == IF existOk THEN "write" ELSE "failed"

\* Path.mkdir: the first os.mkdir of /results/parameters
IMkdirTry(k) ==
    /\ inst[k].pc = "mkdir"
    /\ InLoops(inst[k].p, inst[k].ai, inst[k].ui)
    /\ CanBuild(inst[k].p)
    /\ LET r == OsMkdir(dirs, ParametersDir, ResultsDir)
       IN  /\ dirs' = IF r = "created" THEN dirs \cup {ParametersDir} ELSE dirs
           /\ inst' = [inst EXCEPT ![k].pc =
                         CASE r = "created"           -> "write"
                           [] r = "FileNotFoundError" -> "mkparent"
                           [] r = "FileExistsError"   -> OnExists(ExistOk)]
    /\ UNCHANGED <<mainVars, files>>

\* except FileNotFoundError: self.parent.mkdir(parents=True, exist_ok=True)
IMkParent(k) ==
    /\ inst[k].pc = "mkparent"
    /\ dirs' = dirs \cup {ResultsDir}
    /\ inst' = [inst EXCEPT ![k].pc = "mkretry"]
    /\ UNCHANGED <<mainVars, files>>

\* self.mkdir(mode, parents=False, exist_ok=exist_ok)
IMkRetry(k) ==
    /\ inst[k].pc = "mkretry"
    /\ LET r == OsMkdir(dirs, ParametersDir, ResultsDir)
       IN  /\ dirs' = IF r = "created" THEN dirs \cup {ParametersDir} ELSE dirs
           /\ inst' = [inst EXCEPT ![k].pc =
                         CASE r = "created"           -> "write"
                           [] r = "FileNotFoundError" -> "failed"
                           [] r = "FileExistsError"   -> OnExists(ExistOk)]
    /\ UNCHANGED <<mainVars, files>>

\* output_path.write_text(...), then the rest of the iteration
IWrite(k) ==
    /\ inst[k].pc = "write"
    /\ ParametersDir \in dirs
    /\ LET i == inst[k]
           e == WriteEvent(i.p, i.ai, i.ui, i.idx, k)
       IN  /\ files' = Store(files, e)
           /\ inst' = [inst EXCEPT ![k].log = Append(i.log, e),
                                   ![k].idx = NextIdx(i.p, i.idx),
                                   ![k].ai = NextPos(i.p, i.ai, i.ui)[1],
                                   ![k].ui = NextPos(i.p, i.ai, i.ui)[2],
                                   ![k].pc = "mkdir"]
    /\ UNCHANGED <<mainVars, dirs>>

\* write_parameter_sets returns
IReturn(k) ==
    /\ inst[k].pc = "mkdir"
    /\ LoopsOver(inst[k].p, inst[k].ai, inst[k].ui)
    /\ inst' = [inst EXCEPT ![k].pc = "done"]
    /\ UNCHANGED <<mainVars, dirs, files>>

NextConc ==
    \E k \in Instances :
        \/ IMkdirTry(k)
        \/ IMkParent(k)
        \/ IMkRetry(k)
        \/ IWrite(k)
        \/ IReturn(k)

SpecConc == InitConc /\ [][NextConc]_vars

----------------------------------------------------------------------------
(* Properties *)

IsPrefix(a, b) == Len(a) <= Len(b) /\ a = SubSeq(b, 1, Len(a))

Resolved == params # <<>>

Selected == pc \in {"loop", "write", "ensure", "done"}

\* the write_text calls made for session sid, in order
PartWrites(sid) == SelectSeq(writes, LAMBDA e : e.content.session_id = sid)

NameContent(w) == [k \in 1..Len(w) |-> <<w[k].name, w[k].content>>]

\* the source order the documentation of CapsuleParameters describes
DocumentedSources == <<"init", "file", "cli">>

\* C1: every field of a resolved configuration holds the value of the
\* highest-ranked source supplying it, ranked explicit override, then the
\* persisted file, then the command line.
C1_PrecedenceOverrideFileCli ==
    (pc = "resolved" /\ Resolved) =>
        \A f \in Fields :
            LET i == FirstSupplying(DocumentedSources, f, overrides, fileSrc, cli)
            IN  i # 0 =>
                  <<params[1][f]>> =
                      Coerce(f, DocumentedSources[i],
                             Source(DocumentedSources[i], overrides, fileSrc, cli)[f])

\* C8: a configuration that supplies n_units_list and no areas resolves
\* without error.
C8_AreasOptional ==
    ( /\ pc = "resolved"
      /\ FirstSupplying(SettingsSources, "n_units_list", overrides, fileSrc, cli) # 0
      /\ InvalidFields(SettingsSources, overrides, fileSrc, cli) = {}
      /\ FirstSupplying(DocumentedSources, "areas", overrides, fileSrc, cli) = 0 )
    => Resolved

\* C2: in pipeline mode with no requested session, when the worklist
\* intersected with the available sessions holds more than one id, main()
\* ends with the assertion error carrying that count; a run that ended in an
\* error resolved no per-partition configuration, wrote no artifact, and
\* does nothing further.
C2_TooManyPipelinePartitionsAborts ==
    /\ [][ ( /\ pc = "select"
             /\ params[1].session_id = None
             /\ pipeline
             /\ Cardinality(Range(session_ids) \cap avail) > 1 )
           => ( /\ pc' = "aborted"
                /\ error' = Err("AssertionError",
                                Cardinality(Range(session_ids) \cap avail), {}) ) ]_vars
    /\ [](pc = "aborted" =>
            /\ attempted = <<>> /\ writes = <<>> /\ files = <<>>
            /\ overrides = EmptySrc /\ sp = <<>> /\ ensureCalls = 0)
    /\ [][pc = "aborted" => pc' = "aborted"]_vars

C2_Witness ==
    /\ pc = "aborted"
    /\ error # NoError
    /\ error[1].kind = "AssertionError"
    /\ error[1].count = 2
    /\ pipeline
    /\ params[1].session_id = None

\* C3: a requested session that passes the filter of the query makes the
\* worklist exactly that session.
C3_RequestedInFilterCollapses ==
    ( /\ Selected
      /\ params[1].session_id # None
      /\ params[1].session_id \in FilteredIds(table, params[1].areas) )
    => session_ids = <<params[1].session_id>>

C5_EveryPartitionAttempted ==
    (Resolved /\ ~params[1].test /\ Selected) =>
        /\ IsPrefix(attempted, session_ids)
        /\ Len(outcomes) <= Len(attempted)
        /\ Len(attempted) <= Len(outcomes) + 1
        /\ pc = "loop" => (Len(attempted) = cur - 1 /\ Len(outcomes) = cur - 1)
        /\ pc = "write" => (Len(attempted) = cur /\ Len(outcomes) = cur - 1)
        /\ pc \in {"loop", "write", "ensure"} => ensureCalls = 0
        /\ pc \in {"ensure", "done"} =>
              (attempted = session_ids /\ Len(outcomes) = Len(session_ids))
        /\ pc = "done" => ensureCalls = 1

C5_Witness ==
    /\ Resolved
    /\ ~params[1].test
    /\ pc = "done"
    /\ Len(session_ids) = 3
    /\ attempted = session_ids
    /\ outcomes = <<"Failed", "Failed", "Completed">>
    /\ ensureCalls = 1

\* the work units of session sid in the order of areas, then n_units_list
ExpectedUnits(sid, areas, units) ==
    [k \in 1..(Len(areas) * Len(units)) |->
        << sid \o "_input_parameters_" \o ToString(k - 1) \o ".json",
           [session_id |-> sid,
            area |-> areas[((k - 1) \div Len(units)) + 1],
            n_units |-> units[((k - 1) % Len(units)) + 1]] >>]

\* C6: outside test mode the k-th write for a session is the work unit
\* (areas[k div n], n_units_list[k mod n]) under the name
\* <session>_input_parameters_<k>.json, a completed session has all
\* |areas| * |n_units_list| of them, and no name is written twice.
C6_EnumerationOrderAndIndex ==
    (Resolved /\ ~params[1].test) =>
        \A j \in 1..Len(attempted) :
            LET w == NameContent(PartWrites(attempted[j]))
                ex == ExpectedUnits(attempted[j], params[1].areas, params[1].n_units_list)
            IN  /\ IsPrefix(w, ex)
                /\ \A a, b \in 1..Len(w) : w[a][1] = w[b][1] => a = b
                /\ (j <= Len(outcomes) /\ outcomes[j] = "Completed") => w = ex

C6_Witness ==
    /\ Resolved
    /\ ~params[1].test
    /\ params[1].areas = <<"VISp", "CA1">>
    /\ params[1].n_units_list = <<25, 50>>
    /\ outcomes = <<"Completed">>
    /\ Len(PartWrites("sessA")) = 4
    /\ PartWrites("sessA")[3].name = "sessA_input_parameters_2.json"
    /\ PartWrites("sessA")[3].content.area = "CA1"
    /\ PartWrites("sessA")[3].content.n_units = 25

\* C7: in test mode at most one write happens for a session, it is index 0
\* with (areas[1], n_units_list[1]), and no second session is attempted.
C7_TestModeOneArtifact ==
    (Resolved /\ params[1].test) =>
        /\ Len(attempted) <= 1
        /\ \A j \in 1..Len(attempted) :
              LET w == PartWrites(attempted[j])
              IN  /\ Len(w) <= 1
                  /\ Len(w) = 1 =>
                        /\ w[1].idx = 0
                        /\ w[1].content.area = params[1].areas[1]
                        /\ w[1].content.n_units = params[1].n_units_list[1]

\* C9: the worklist is determined by the inputs: with no session requested
\* outside pipeline mode it is the sorted ids that pass the filter.
C9_WorklistIsFilterResult ==
    (Selected /\ branch = "all") =>
        session_ids = Sorted(FilteredIds(table, params[1].areas))

Names(log) == {log[i].name : i \in 1..Len(log)}

\* the names under the session-id prefix of instance k
OwnedNames(k) ==
    {inst[k].sid \o "_input_parameters_" \o ToString(i) \o ".json" :
        i \in 0..(Len(inst[k].p.areas) * Len(inst[k].p.n_units_list))}

LastWrite(log, n) ==
    log[CHOOSE i \in 1..Len(log) :
            log[i].name = n /\ \A j \in (i + 1)..Len(log) : log[j].name # n]

\* C10: with two instances pinned to distinct sessions, under every
\* interleaving no name is written by both, no directory creation fails, and
\* every artifact holds the last work unit written by the one instance that
\* owns its session-id prefix.
C10_NoCollisionAcrossInstances ==
    /\ \A k \in Instances : inst[k].pc # "failed"
    /\ \A k, l \in Instances :
          k # l => Names(inst[k].log) \cap Names(inst[l].log) = {}
    /\ \A n \in DOMAIN files :
          \E k \in Instances :
              /\ files[n].by = k
              /\ n \in OwnedNames(k)
              /\ \A l \in Instances \ {k} : n \notin OwnedNames(l)
              /\ n \in Names(inst[k].log)
              /\ files[n].content = LastWrite(inst[k].log, n).content
              /\ files[n].content.session_id = inst[k].sid

C10_Witness ==
    /\ \A k \in Instances : inst[k].pc = "done" /\ Len(inst[k].log) = 4
    /\ Cardinality(DOMAIN files) = 8
    /\ inst[2].sid = "sessA_input_parameters_0"

====
